---- MODULE Spec2Model ----
(***************************************************************************)
(* kuukan: compile-time composition of vector, metric and normed spaces    *)
(* from caller-supplied operation functors.                                *)
(*                                                                         *)
(* Three specifications are given.                                         *)
(*   SpecCompose  the definition-time side: a translation unit names       *)
(*                template arguments, the constraints of core_concepts.hpp *)
(*                and the requires-clauses of the three templates decide   *)
(*                whether a structure is produced.                         *)
(*   Spec         the call-time side: a program holds composed structures  *)
(*                and calls their entry points on elements.                *)
(*   SpecRun      the call-time side step by step: threads of control call *)
(*                entry points, every call of a caller's functor is a step *)
(*                of its own, functors may keep state or throw.            *)
(***************************************************************************)
EXTENDS Integers, Sequences, FiniteSets, TLC

VARIABLES cur, diag, defined, verdicts, space, last, threads, temps, store

vars == <<cur, diag, defined, verdicts, space, last, threads, temps, store>>

(***************************************************************************)
(* Bounds of the model.                                                    *)
(***************************************************************************)
\* elements of the numeric carrier are 0 .. MaxElem-1
MaxElem == 3
\* scalars of the numeric carrier are 0 .. MaxScalar-1
MaxScalar == 2
\* sample points at which a RealFunctionElement evaluator is tabulated
MaxPoint == 2
\* how many NormedSpace layers are stacked on one vector-space structure
MaxLayers == 2
\* in how many places a hand-written structure departs from the shape of
\* VectorSpace
MaxDeviations == 2
\* how many times VectorSpaceLike is evaluated for one structure
MaxChecks == 2

(***************************************************************************)
(* C++ types.  A type is a base name with its cv and reference part, so    *)
(* that std::same_as (identity) and std::convertible_to differ.            *)
(***************************************************************************)
Ty(b) == [base |-> b, cv |-> "", ref |-> ""]
ConstTy(b) == [base |-> b, cv |-> "const", ref |-> ""]
RefTy(b) == [base |-> b, cv |-> "", ref |-> "&"]
ConstRefTy(b) == [base |-> b, cv |-> "const", ref |-> "&"]
\* what an ill-formed expression or a missing member type yields
NoType == Ty("none")
VoidTy == Ty("void")

Arithmetic == {"bool", "short", "int", "double"}

\* The built-in and user-declared binary operators of each base type: the
\* type of `lhs op rhs` for two lvalues of the type, NoType when the
\* expression is ill-formed.
Closed(b) == [plus |-> Ty(b), minus |-> Ty(b), times |-> Ty(b), div |-> Ty(b),
              eq |-> Ty("bool"), lt |-> Ty("bool"), le |-> Ty("bool")]
NoOperators == [plus |-> NoType, minus |-> NoType, times |-> NoType, div |-> NoType,
                eq |-> NoType, lt |-> NoType, le |-> NoType]

OperatorTable ==
    [b \in {"double", "int", "short", "bool", "Rational", "NoDiv", "RefRet",
            "EqVoid", "string", "Cplx", "NoLe", "E", "RealFunctionElement",
            "void", "none"} |->
      CASE b = "double"   -> Closed("double")
        [] b = "int"      -> Closed("int")
        \* integral promotion: short op short and bool op bool are int
        [] b = "short"    -> Closed("int")
        [] b = "bool"     -> Closed("int")
        [] b = "Rational" -> Closed("Rational")
        [] b = "NoDiv"    -> [Closed("NoDiv") EXCEPT !.div = NoType]
        [] b = "RefRet"   -> [Closed("RefRet") EXCEPT !.plus = RefTy("RefRet")]
        [] b = "EqVoid"   -> [Closed("EqVoid") EXCEPT !.eq = VoidTy]
        [] b = "string"   -> [NoOperators EXCEPT !.plus = Ty("string"),
                                !.eq = Ty("bool"), !.lt = Ty("bool"), !.le = Ty("bool")]
        [] b = "Cplx"     -> [NoOperators EXCEPT !.plus = Ty("Cplx"), !.eq = Ty("bool")]
        [] b = "NoLe"     -> [NoOperators EXCEPT !.plus = Ty("NoLe"),
                                !.eq = Ty("bool"), !.lt = Ty("bool")]
        [] OTHER          -> NoOperators]

OperatorResult(t, op) == OperatorTable[t.base][op]

\* std::same_as<A, B>
same_as(a, b) == a # NoType /\ a = b

\* std::convertible_to<From, To> for an object type To: the same class (a
\* copy), or one arithmetic type to another.
convertible_to(from, to) ==
    /\ from # NoType
    /\ from.base # "void"
    /\ \/ from.base = to.base
       \/ from.base \in Arithmetic /\ to.base \in Arithmetic

(***************************************************************************)
(* core_concepts.hpp                                                       *)
(***************************************************************************)
FieldLikeNoDivision(ScalarType) ==
    /\ same_as(OperatorResult(ScalarType, "plus"), ScalarType)
    /\ same_as(OperatorResult(ScalarType, "minus"), ScalarType)
    /\ same_as(OperatorResult(ScalarType, "times"), ScalarType)
    /\ convertible_to(OperatorResult(ScalarType, "eq"), Ty("bool"))

FieldLike(ScalarType) ==
    /\ same_as(OperatorResult(ScalarType, "plus"), ScalarType)
    /\ same_as(OperatorResult(ScalarType, "minus"), ScalarType)
    /\ same_as(OperatorResult(ScalarType, "times"), ScalarType)
    /\ same_as(OperatorResult(ScalarType, "div"), ScalarType)
    /\ convertible_to(OperatorResult(ScalarType, "eq"), Ty("bool"))

OrderedMeasure(MeasureType) ==
    /\ same_as(OperatorResult(MeasureType, "plus"), MeasureType)
    /\ convertible_to(OperatorResult(MeasureType, "eq"), Ty("bool"))
    /\ convertible_to(OperatorResult(MeasureType, "lt"), Ty("bool"))
    /\ convertible_to(OperatorResult(MeasureType, "le"), Ty("bool"))

(***************************************************************************)
(* Operation functors.  A functor type is its call signature, whether it   *)
(* is default-constructible, whether its default constructor is constexpr  *)
(* (the type is literal), whether operator() is const, and the behaviour   *)
(* `impl` its operator() has.                                              *)
(***************************************************************************)
Functor(params, ret, impl) ==
    [params |-> params, ret |-> ret, default_init |-> TRUE, literal |-> TRUE,
     const_call |-> TRUE, callable |-> TRUE, impl |-> impl, env |-> <<>>]

\* an object with no operator() at all (an int, an enumerator)
NotCallable == [Functor(<<>>, NoType, "none") EXCEPT !.callable = FALSE]

\* An argument `const T&` binds to a by-value or const-reference parameter
\* it converts to, never to a non-const reference.
ParamBinds(param, arg) ==
    /\ ~(param.ref = "&" /\ param.cv = "")
    /\ convertible_to(arg, Ty(param.base))

\* std::invocable<F, Args...>
invocable(F, Args) ==
    /\ F.callable
    /\ Len(F.params) = Len(Args)
    /\ \A i \in 1..Len(Args) : ParamBinds(F.params[i], Args[i])

\* the type of a call expression: a prvalue of non-class type has no cv
\* qualification, whatever the declared return type says
PrvalueType(t) == IF t.ref = "" /\ t.base \in Arithmetic THEN Ty(t.base) ELSE t

\* std::invoke_result_t<F, Args...>; NoType is the substitution failure
invoke_result_t(F, Args) == IF invocable(F, Args) THEN PrvalueType(F.ret) ELSE NoType

default_initializable(F) == F.default_init

CallableLikeAnyResult(F, R, Args) == invocable(F, Args)

CallableLike(F, R, Args) ==
    /\ invocable(F, Args)
    /\ convertible_to(invoke_result_t(F, Args), R)

(***************************************************************************)
(* Class types.  A class is its member type names, its named members (what *)
(* kind of member each is and the functor it holds or is), its base class  *)
(* and whether it is final.  Member lookup goes to the base class when the *)
(* class itself declares no member of that name.                           *)
(***************************************************************************)
Class(types, members, bases, final) ==
    [types |-> types, members |-> members, bases |-> bases, final |-> final]

Member(kind, f) == [kind |-> kind, f |-> f]
Absent == Member("absent", NotCallable)

RECURSIVE LookupType(_, _)
LookupType(T, n) ==
    IF n \in DOMAIN T.types THEN T.types[n]
    ELSE IF T.bases = <<>> THEN NoType
    ELSE LookupType(T.bases[1], n)

RECURSIVE LookupMember(_, _)
LookupMember(T, n) ==
    IF n \in DOMAIN T.members THEN T.members[n]
    ELSE IF T.bases = <<>> THEN Absent
    ELSE LookupMember(T.bases[1], n)

\* the class in which lookup of n from T finds its declaration
RECURSIVE Owner(_, _)
Owner(T, n) ==
    IF n \in DOMAIN T.members \/ T.bases = <<>> THEN T ELSE Owner(T.bases[1], n)

\* how many NormedSpace layers T has
RECURSIVE Depth(_)
Depth(T) == IF T.bases = <<>> THEN 0 ELSE 1 + Depth(T.bases[1])

OperationNames == {"addition", "scalar_action", "negation", "zero_supplier", "equality"}

(***************************************************************************)
(* vector_space.hpp                                                        *)
(***************************************************************************)
\* the requires-clause of VectorSpace with the FieldLike constraint of its
\* ScalarType parameter
VectorSpaceRequires(ElementType, ScalarType, Addition, ScalarAction, Negation, ZeroSupplier, Equality) ==
    LET E == ConstRefTy(ElementType.base)
        S == ConstRefTy(ScalarType.base)
    IN  /\ FieldLike(ScalarType)
        /\ default_initializable(Addition)
        /\ default_initializable(ScalarAction)
        /\ default_initializable(Negation)
        /\ default_initializable(ZeroSupplier)
        /\ default_initializable(Equality)
        /\ CallableLike(Addition, ElementType, <<E, E>>)
        /\ CallableLike(ScalarAction, ElementType, <<S, E>>)
        /\ CallableLike(Negation, ElementType, <<E>>)
        /\ CallableLike(ZeroSupplier, ElementType, <<>>)
        /\ CallableLike(Equality, Ty("bool"), <<E, E>>)

\* `static inline constexpr F name{};` is well-formed only for a literal F
ConstexprMember(F) == F.literal

\* static constexpr element_type difference(const element_type&, const element_type&)
Declared_difference(ElementType) ==
    Functor(<<ConstRefTy(ElementType.base), ConstRefTy(ElementType.base)>>,
            ElementType, "VectorSpace::difference")

\* the body of struct VectorSpace
VectorSpaceClass(ElementType, ScalarType, Addition, ScalarAction, Negation, ZeroSupplier, Equality) ==
    Class([element_type |-> ElementType, scalar_type |-> ScalarType],
          [addition      |-> Member("static_data", Addition),
           scalar_action |-> Member("static_data", ScalarAction),
           negation      |-> Member("static_data", Negation),
           zero_supplier |-> Member("static_data", ZeroSupplier),
           equality      |-> Member("static_data", Equality),
           difference    |-> Member("static_fn", Declared_difference(ElementType))],
          <<>>, FALSE)

\* T::name is a valid expression of an unevaluated operand: a static member,
\* a non-static data member or an enumerator; not a member type, not a
\* non-static member function
NamesExpression(T, n) ==
    LookupMember(T, n).kind \in {"static_data", "static_fn", "data", "enumerator"}

\* T::difference(const element_type&, const element_type&) is a valid call
\* and what it returns
DifferenceCallType(T) ==
    LET m == LookupMember(T, "difference")
        E == ConstRefTy(LookupType(T, "element_type").base)
    IN  IF /\ m.kind \in {"static_data", "static_fn", "data"}
           /\ m.kind = "static_fn" \/ m.f.const_call
        THEN invoke_result_t(m.f, <<E, E>>)
        ELSE NoType

\* a mutation: recognition by declaration, the type must derive from a
\* structure of the library
VectorSpaceLikeByDeclaration(T) ==
    /\ T.bases # <<>>
    /\ LookupType(T, "element_type") # NoType
    /\ LookupType(T, "scalar_type") # NoType
    /\ NamesExpression(T, "addition")
    /\ NamesExpression(T, "scalar_action")
    /\ NamesExpression(T, "negation")
    /\ NamesExpression(T, "zero_supplier")
    /\ NamesExpression(T, "equality")
    /\ same_as(DifferenceCallType(T), LookupType(T, "element_type"))

VectorSpaceLike(T) ==
    /\ LookupType(T, "element_type") # NoType
    /\ LookupType(T, "scalar_type") # NoType
    /\ NamesExpression(T, "addition")
    /\ NamesExpression(T, "scalar_action")
    /\ NamesExpression(T, "negation")
    /\ NamesExpression(T, "zero_supplier")
    /\ NamesExpression(T, "equality")
    /\ same_as(DifferenceCallType(T), LookupType(T, "element_type"))

(***************************************************************************)
(* metric_space.hpp                                                        *)
(***************************************************************************)
MetricSpaceRequires(ElementType, DistanceFunction) ==
    LET E == ConstRefTy(ElementType.base)
    IN  /\ default_initializable(DistanceFunction)
        /\ OrderedMeasure(invoke_result_t(DistanceFunction, <<E, E>>))

\* static constexpr measure_type dist(const element_type&, const element_type&)
Declared_dist(ElementType, measure_type) ==
    Functor(<<ConstRefTy(ElementType.base), ConstRefTy(ElementType.base)>>,
            measure_type, "MetricSpace::dist")

\* the body of struct MetricSpace
MetricSpaceClass(ElementType, DistanceFunction) ==
    LET E == ConstRefTy(ElementType.base)
        measure_type == invoke_result_t(DistanceFunction, <<E, E>>)
    IN  Class([element_type |-> ElementType, measure_type |-> measure_type],
              [distance |-> Member("static_data", DistanceFunction),
               dist     |-> Member("static_fn", Declared_dist(ElementType, measure_type))],
              <<>>, FALSE)

MetricSpaceLike(T) ==
    LET m == LookupMember(T, "distance")
        E == ConstRefTy(LookupType(T, "element_type").base)
    IN  /\ LookupType(T, "element_type") # NoType
        /\ LookupType(T, "measure_type") # NoType
        /\ m.kind \in {"static_data", "static_fn", "data"}
        /\ m.kind = "static_fn" \/ m.f.const_call
        /\ same_as(invoke_result_t(m.f, <<E, E>>), LookupType(T, "measure_type"))

(***************************************************************************)
(* normed_space.hpp                                                        *)
(***************************************************************************)
NormedSpaceRequires(VS, NormFunction) ==
    /\ VectorSpaceLike(VS)
    /\ default_initializable(NormFunction)
    /\ OrderedMeasure(invoke_result_t(NormFunction,
            <<ConstRefTy(LookupType(VS, "element_type").base)>>))

\* struct NormedSpace : VS  needs a class that may be derived from
DerivableBase(VS) == ~VS.final

\* static constexpr measure_type distance(const element_type&, const element_type&)
Declared_distance(element_type, measure_type) ==
    Functor(<<ConstRefTy(element_type.base), ConstRefTy(element_type.base)>>,
            measure_type, "NormedSpace::distance")

\* a mutation: NormedSpace declares a difference of its own, which hides the
\* one of its base
NormedSpaceClassHidingDifference(VS, NormFunction) ==
    LET element_type == LookupType(VS, "element_type")
        measure_type == invoke_result_t(NormFunction, <<ConstRefTy(element_type.base)>>)
    IN  Class([element_type |-> element_type, measure_type |-> measure_type],
              [norm       |-> Member("static_data", NormFunction),
               distance   |-> Member("static_fn",
                                     Declared_distance(element_type, measure_type)),
               difference |-> Member("static_fn",
                                     [Declared_difference(element_type)
                                        EXCEPT !.impl = "add_first"])],
              <<VS>>, FALSE)

\* the body of struct NormedSpace, without the nested metric_space
NormedSpaceClass(VS, NormFunction) ==
    LET element_type == LookupType(VS, "element_type")
        measure_type == invoke_result_t(NormFunction, <<ConstRefTy(element_type.base)>>)
    IN  Class([element_type |-> element_type, measure_type |-> measure_type],
              [norm     |-> Member("static_data", NormFunction),
               distance |-> Member("static_fn",
                                   Declared_distance(element_type, measure_type))],
              <<VS>>, FALSE)

\* struct InducedDistance of the NormedSpace NS: an empty functor whose
\* operator() reads NS's norm and NS's base
InducedDistance(NS) ==
    LET E == ConstRefTy(NS.types.element_type.base)
    IN  [Functor(<<E, E>>, NS.types.measure_type, "InducedDistance") EXCEPT !.env = <<NS>>]

\* using metric_space = MetricSpace<element_type, InducedDistance>
metric_space(NS) == MetricSpaceClass(NS.types.element_type, InducedDistance(NS))

(***************************************************************************)
(* What a translation unit may name as template arguments.                 *)
(***************************************************************************)
ElementType == Ty("E")
cE == ConstRefTy("E")

ScalarTypes == {Ty("double"), Ty("int"), Ty("short"), Ty("bool"), Ty("Rational"),
                Ty("NoDiv"), Ty("RefRet"), Ty("EqVoid")}

\* functor types, named by what is unusual about them
NoDefault(F) == [F EXCEPT !.default_init = FALSE, !.literal = FALSE]
NonLiteral(F) == [F EXCEPT !.literal = FALSE]
NonConstCall(F) == [F EXCEPT !.const_call = FALSE]
Variants(F) == {F, NoDefault(F), NonLiteral(F), NonConstCall(F)}

Binary(ret) == Functor(<<cE, cE>>, ret, "opaque")
Unary(ret) == Functor(<<cE>>, ret, "opaque")
Nullary(ret) == Functor(<<>>, ret, "opaque")
Scaling(S, ret) == Functor(<<ConstRefTy(S), cE>>, ret, "opaque")
ByValue(ret) == Functor(<<Ty("E"), Ty("E")>>, ret, "opaque")
MutableRef(ret) == Functor(<<RefTy("E"), RefTy("E")>>, ret, "opaque")

AdditionTypes ==
    Variants(Binary(ElementType))
        \cup {ByValue(cE), Unary(ElementType), MutableRef(ElementType),
              Binary(VoidTy), Binary(Ty("int"))}
\* one functor taking each candidate scalar, and two ill-shaped ones
ScalarActionTypes ==
    {Scaling(S.base, ElementType) : S \in ScalarTypes}
        \cup {NoDefault(Scaling("double", ElementType)), Unary(ElementType)}
NegationTypes ==
    {Unary(ElementType), NoDefault(Unary(ElementType)), Binary(ElementType),
     Unary(VoidTy)}
ZeroSupplierTypes ==
    {Nullary(ElementType), NoDefault(Nullary(ElementType)), Unary(ElementType)}
EqualityTypes ==
    {Binary(Ty("bool")), Binary(Ty("int")), NoDefault(Binary(Ty("bool"))),
     Binary(ElementType), Unary(Ty("bool"))}

DistanceTypes ==
    Variants(Binary(Ty("double")))
        \cup {Binary(Ty("int")), Binary(Ty("bool")), Binary(VoidTy), Binary(Ty("string")),
              Binary(Ty("Cplx")), Binary(Ty("NoLe")), Binary(ConstRefTy("double")),
              Unary(Ty("double")), MutableRef(Ty("double"))}

NormTypes ==
    Variants(Unary(Ty("double")))
        \cup {Unary(Ty("int")), Unary(Ty("bool")), Unary(VoidTy), Unary(Ty("string")),
              Unary(Ty("Cplx")), Unary(ConstRefTy("double")), Binary(Ty("double")),
              Functor(<<ConstRefTy("int")>>, Ty("double"), "opaque")}

\* element types other than the class E: a built-in type, and const-qualified
\* types
ElementTypes == {Ty("int"), ConstTy("int"), Ty("double"), ConstTy("double"), ConstTy("E")}

\* the five operations written for elements of base type b and double scalars
Fitting(b) ==
    [Addition     |-> Functor(<<ConstRefTy(b), ConstRefTy(b)>>, Ty(b), "opaque"),
     ScalarAction |-> Functor(<<ConstRefTy("double"), ConstRefTy(b)>>, Ty(b), "opaque"),
     Negation     |-> Functor(<<ConstRefTy(b)>>, Ty(b), "opaque"),
     ZeroSupplier |-> Functor(<<>>, Ty(b), "opaque"),
     Equality     |-> Functor(<<ConstRefTy(b), ConstRefTy(b)>>, Ty("bool"), "opaque")]

(***************************************************************************)
(* Hand-written structures: the shape of VectorSpace with up to            *)
(* MaxDeviations of its parts replaced.                                    *)
(***************************************************************************)
Slots == {"element_type", "scalar_type", "difference", "final"} \cup OperationNames

Alternatives(slot) ==
    CASE slot = "element_type" -> {"absent"}
      [] slot = "scalar_type"  -> {"absent", "void"}
      [] slot = "final"        -> {"final"}
      [] slot = "difference"   -> {"absent", "fn", "returns_cref", "returns_const",
                                   "mutable_params", "unary", "functor", "by_value"}
      [] OTHER                 -> {"absent", "data", "fn", "static_fn", "type",
                                   "enumerator"}

AllAlternatives == UNION {Alternatives(s) : s \in Slots}

Deviations ==
    UNION {{d \in [D -> AllAlternatives] : \A s \in D : d[s] \in Alternatives(s)} :
           D \in {D \in SUBSET Slots : Cardinality(D) <= MaxDeviations}}

HandWrittenOperation(d, n, F) ==
    IF n \notin DOMAIN d THEN Member("static_data", F)
    ELSE CASE d[n] = "data"       -> Member("data", F)
           [] d[n] = "fn"         -> Member("fn", F)
           [] d[n] = "static_fn"  -> Member("static_fn", F)
           [] d[n] = "type"       -> Member("type", NotCallable)
           [] d[n] = "enumerator" -> Member("enumerator", NotCallable)
           [] OTHER               -> Absent

HandWrittenDifference(d) ==
    IF "difference" \notin DOMAIN d
    THEN Member("static_fn", Binary(ElementType))
    ELSE CASE d.difference = "fn"             -> Member("fn", Binary(ElementType))
           [] d.difference = "returns_cref"   -> Member("static_fn", Binary(cE))
           [] d.difference = "returns_const"  -> Member("static_fn", Binary(ConstTy("E")))
           [] d.difference = "mutable_params" -> Member("static_fn", MutableRef(ElementType))
           [] d.difference = "unary"          -> Member("static_fn", Unary(ElementType))
           [] d.difference = "functor"        -> Member("static_data", Binary(ElementType))
           [] d.difference = "by_value"       -> Member("static_fn", ByValue(ElementType))
           [] OTHER                           -> Absent

HandWritten(d) ==
    Class([n \in {"element_type", "scalar_type"} |->
              IF n \notin DOMAIN d
              THEN (IF n = "element_type" THEN ElementType ELSE Ty("double"))
              ELSE IF d[n] = "void" THEN VoidTy ELSE NoType],
          [n \in OperationNames \cup {"difference"} |->
              CASE n = "addition"      -> HandWrittenOperation(d, n, Binary(ElementType))
                [] n = "scalar_action" -> HandWrittenOperation(d, n, Scaling("double", ElementType))
                [] n = "negation"      -> HandWrittenOperation(d, n, Unary(ElementType))
                [] n = "zero_supplier" -> HandWrittenOperation(d, n, Nullary(ElementType))
                [] n = "equality"      -> HandWrittenOperation(d, n, Binary(Ty("bool")))
                [] OTHER               -> HandWrittenDifference(d)],
          <<>>, "final" \in DOMAIN d)

(***************************************************************************)
(* Definition time.  cur holds the structure the unit has defined last,    *)
(* diag the outcome of the last definition or check.  A rejection ends the *)
(* translation: nothing is defined after it.                               *)
(***************************************************************************)
Accepted == "accepted"
ConstraintFailure == "constraint failure"
HardError == "hard error"

Outcome(requires, wellFormed) ==
    IF ~requires THEN ConstraintFailure
    ELSE IF ~wellFormed THEN HardError
    ELSE Accepted

Diag(template, args, outcome) ==
    [template |-> template, args |-> args, outcome |-> outcome, verdict |-> FALSE]

NoProgram == [kind |-> "none"]

\* the threads of control of a running program; none runs at definition time
Threads == {"t1", "t2"}
\* the functions of the library that call something: each holds, while it
\* runs, the value its callee has returned
CoreFunctions == {"VectorSpace::difference", "MetricSpace::dist", "InducedDistance",
                  "NormedSpace::distance"}
NotRunning == [t \in Threads |-> [status |-> "idle"]]
NoTemporaries == [t \in Threads |-> [fn \in CoreFunctions |-> <<>>]]
\* the state the operation instances of a program hold: the flag of a
\* functor that keeps one
FreshStore == [flipped |-> FALSE]

InitCompose ==
    /\ cur = <<>>
    /\ diag = Diag("none", <<>>, Accepted)
    /\ defined = "none"
    /\ verdicts = <<>>
    /\ space = NoProgram
    /\ last = <<>>
    /\ threads = NotRunning
    /\ temps = NoTemporaries
    /\ store = FreshStore

\* nothing has been defined yet
Fresh == cur = <<>> /\ diag.template = "none"

\* using X = VectorSpace<E, S, A, SA, N, Z, Eq>, instantiated
DefineVectorSpace(S, A, SA, N, Z, Eq) ==
    LET outcome == Outcome(VectorSpaceRequires(ElementType, S, A, SA, N, Z, Eq),
                           /\ ConstexprMember(A) /\ ConstexprMember(SA)
                           /\ ConstexprMember(N) /\ ConstexprMember(Z)
                           /\ ConstexprMember(Eq))
    IN  /\ Fresh
        /\ diag' = Diag("VectorSpace",
                        [ElementType |-> ElementType, ScalarType |-> S, Addition |-> A,
                         ScalarAction |-> SA, Negation |-> N, ZeroSupplier |-> Z,
                         Equality |-> Eq], outcome)
        /\ cur' = IF outcome = Accepted
                  THEN <<VectorSpaceClass(ElementType, S, A, SA, N, Z, Eq)>>
                  ELSE cur
        /\ defined' = "VectorSpace"
        /\ UNCHANGED <<verdicts, space, last, threads, temps, store>>

\* using X = VectorSpace<Element, double, ...>, instantiated, with the five
\* operations written for that element type
DefineVectorSpaceOf(Element) ==
    LET f == Fitting(Element.base)
        outcome == Outcome(VectorSpaceRequires(Element, Ty("double"), f.Addition,
                                               f.ScalarAction, f.Negation,
                                               f.ZeroSupplier, f.Equality),
                           /\ ConstexprMember(f.Addition) /\ ConstexprMember(f.ScalarAction)
                           /\ ConstexprMember(f.Negation) /\ ConstexprMember(f.ZeroSupplier)
                           /\ ConstexprMember(f.Equality))
    IN  /\ Fresh
        /\ diag' = Diag("VectorSpace",
                        [ElementType |-> Element, ScalarType |-> Ty("double"),
                         Addition |-> f.Addition, ScalarAction |-> f.ScalarAction,
                         Negation |-> f.Negation, ZeroSupplier |-> f.ZeroSupplier,
                         Equality |-> f.Equality], outcome)
        /\ cur' = IF outcome = Accepted
                  THEN <<VectorSpaceClass(Element, Ty("double"), f.Addition, f.ScalarAction,
                                          f.Negation, f.ZeroSupplier, f.Equality)>>
                  ELSE cur
        /\ defined' = "VectorSpace"
        /\ UNCHANGED <<verdicts, space, last, threads, temps, store>>

\* using X = MetricSpace<E, D>, instantiated
DefineMetricSpace(D) ==
    LET outcome == Outcome(MetricSpaceRequires(ElementType, D), ConstexprMember(D))
    IN  /\ Fresh
        /\ diag' = Diag("MetricSpace",
                        [ElementType |-> ElementType, DistanceFunction |-> D], outcome)
        /\ cur' = IF outcome = Accepted THEN <<MetricSpaceClass(ElementType, D)>> ELSE cur
        /\ defined' = "MetricSpace"
        /\ UNCHANGED <<verdicts, space, last, threads, temps, store>>

\* struct X { ... }; written by hand
DeclareStruct(d) ==
    /\ Fresh
    /\ diag' = Diag("struct", d, Accepted)
    /\ cur' = <<HandWritten(d)>>
    /\ defined' = "struct"
    /\ UNCHANGED <<verdicts, space, last, threads, temps, store>>

\* using X = NormedSpace<VS, Norm>, instantiated, over the structure defined
\* last; the nested MetricSpace<element_type, InducedDistance> is named in
\* its body.  `defined` keeps saying where the structure at the bottom came
\* from; the checks made of the structure below do not count for the new one.
DefineNormedSpace(NormFunction) ==
    LET VS == cur[1]
        NS == NormedSpaceClass(VS, NormFunction)
        outcome == Outcome(NormedSpaceRequires(VS, NormFunction),
                           /\ DerivableBase(VS)
                           /\ ConstexprMember(NormFunction)
                           /\ MetricSpaceRequires(NS.types.element_type, InducedDistance(NS))
                           /\ ConstexprMember(InducedDistance(NS)))
    IN  /\ cur # <<>>
        /\ diag.outcome = Accepted
        /\ Depth(VS) < MaxLayers
        /\ diag' = Diag("NormedSpace", [VS |-> VS, NormFunction |-> NormFunction], outcome)
        /\ cur' = IF outcome = Accepted THEN <<NS>> ELSE cur
        /\ verdicts' = IF outcome = Accepted THEN <<>> ELSE verdicts
        /\ UNCHANGED <<defined, space, last, threads, temps, store>>

\* VectorSpaceLike<X> evaluated for the structure defined last
CheckVectorSpaceLike ==
    /\ cur # <<>>
    /\ diag.outcome = Accepted
    /\ Len(verdicts) < MaxChecks
    /\ diag' = [Diag("VectorSpaceLike", [T |-> cur[1]], Accepted)
                   EXCEPT !.verdict = VectorSpaceLike(cur[1])]
    /\ verdicts' = Append(verdicts, VectorSpaceLike(cur[1]))
    /\ UNCHANGED <<cur, defined, space, last, threads, temps, store>>

NextCompose ==
    \/ Fresh /\ \E S \in ScalarTypes, A \in AdditionTypes, SA \in ScalarActionTypes,
                    N \in NegationTypes, Z \in ZeroSupplierTypes, Eq \in EqualityTypes :
                      DefineVectorSpace(S, A, SA, N, Z, Eq)
    \/ Fresh /\ \E Element \in ElementTypes : DefineVectorSpaceOf(Element)
    \/ Fresh /\ \E D \in DistanceTypes : DefineMetricSpace(D)
    \/ Fresh /\ \E d \in Deviations : DeclareStruct(d)
    \/ \E NormFunction \in NormTypes : DefineNormedSpace(NormFunction)
    \/ CheckVectorSpaceLike

SpecCompose == InitCompose /\ [][NextCompose]_vars

(***************************************************************************)
(* Call time: what the caller's functors compute.                          *)
(***************************************************************************)
\* the numeric carrier and its scalars
Elem == 0..(MaxElem - 1)
Scalar == 0..(MaxScalar - 1)

\* examples/minimal_function_space.cpp: a RealFunctionElement is an evaluator,
\* tabulated at the sample points, and a symbolic identity
Points == 0..(MaxPoint - 1)
\* 100 sin x and 100 cos x at x = 0, 1, 2, ...
SinTable == <<0, 84, 91, 14, -76, -96>>
CosTable == <<100, 54, -42, -99, -65, 28>>

RealFunctionElement(evaluator, symbolic_identity) ==
    [evaluator |-> evaluator, symbolic_identity |-> symbolic_identity]

sin_function == RealFunctionElement([x \in Points |-> SinTable[x + 1]], "sin")
cos_function == RealFunctionElement([x \in Points |-> CosTable[x + 1]], "cos")

\* std::to_string of a double holding the whole number s
to_string(s) == ToString(s) \o ".000000"

FunctionAddition(function_left, function_right) ==
    RealFunctionElement(
        [x \in Points |-> function_left.evaluator[x] + function_right.evaluator[x]],
        "(" \o function_left.symbolic_identity \o " + "
            \o function_right.symbolic_identity \o ")")

FunctionScalarAction(scalar_value, function_value) ==
    RealFunctionElement(
        [x \in Points |-> scalar_value * function_value.evaluator[x]],
        "(" \o to_string(scalar_value) \o " * " \o function_value.symbolic_identity \o ")")

FunctionNegation(function_value) ==
    RealFunctionElement([x \in Points |-> -function_value.evaluator[x]],
                        "(-" \o function_value.symbolic_identity \o ")")

FunctionZeroSupplier == RealFunctionElement([x \in Points |-> 0], "0")

FunctionEquality(function_left, function_right) ==
    function_left.symbolic_identity = function_right.symbolic_identity

SupNormPlaceholder(element) == 0

\* the operator() of a caller's functor, by the name of its behaviour
Behaviour(impl, args) ==
    CASE impl = "FunctionAddition"     -> FunctionAddition(args[1], args[2])
      [] impl = "FunctionScalarAction" -> FunctionScalarAction(args[1], args[2])
      [] impl = "FunctionNegation"     -> FunctionNegation(args[1])
      [] impl = "FunctionZeroSupplier" -> FunctionZeroSupplier
      [] impl = "FunctionEquality"     -> FunctionEquality(args[1], args[2])
      [] impl = "SupNormPlaceholder"   -> SupNormPlaceholder(args[1])
      \* additions on the numeric carrier
      [] impl = "add_mod"        -> (args[1] + args[2]) % MaxElem
      [] impl = "add_weighted"   -> (args[1] + 2 * args[2]) % MaxElem
      [] impl = "add_first"      -> args[1]
      [] impl = "add_second"     -> args[2]
      \* scalar actions
      [] impl = "scale_mod"      -> (args[1] * args[2]) % MaxElem
      [] impl = "scale_ignore"   -> args[2]
      \* negations
      [] impl = "neg_mod"        -> (MaxElem - args[1]) % MaxElem
      [] impl = "neg_identity"   -> args[1]
      [] impl = "neg_successor"  -> (args[1] + 1) % MaxElem
      \* operations defined on part of the carrier only: what they return
      \* where they return
      [] impl = "add_partial"    -> (args[1] + args[2]) % MaxElem
      [] impl = "neg_partial"    -> (MaxElem - args[1]) % MaxElem
      [] impl = "norm_partial"   -> args[1]
      \* a negation that keeps a flag: what it returns while the flag is clear
      [] impl = "neg_alternating" -> (MaxElem - args[1]) % MaxElem
      \* zero suppliers
      [] impl = "zero"           -> 0
      [] impl = "zero_top"       -> MaxElem - 1
      \* equalities
      [] impl = "eq_same"        -> args[1] = args[2]
      [] impl = "eq_always"      -> TRUE
      \* norms
      [] impl = "norm_magnitude" -> IF 2 * args[1] <= MaxElem THEN args[1]
                                    ELSE MaxElem - args[1]
      [] impl = "norm_value"     -> args[1]
      [] impl = "norm_zero"      -> 0
      \* distances
      [] impl = "dist_absolute"  -> IF args[1] >= args[2] THEN args[1] - args[2]
                                    ELSE args[2] - args[1]
      [] impl = "dist_discrete"  -> IF args[1] = args[2] THEN 0 ELSE 1
      [] impl = "dist_directed"  -> (args[1] + MaxElem - args[2]) % MaxElem
      \* differences written by hand
      [] impl = "hw_derived"     -> (args[1] + MaxElem - args[2]) % MaxElem
      [] impl = "hw_reversed"    -> (args[2] + MaxElem - args[1]) % MaxElem
      [] impl = "hw_constant"    -> 0

(***************************************************************************)
(* Call time: the bodies the three templates define.                       *)
(***************************************************************************)
RECURSIVE Invoke(_, _, _)
RECURSIVE CallStatic(_, _, _)

\* a mutation: the operands of addition exchanged
VectorSpace_differenceSwapped(C, element_left, element_right) ==
    Invoke(C.members.addition.f, C,
           <<Invoke(C.members.negation.f, C, <<element_right>>), element_left>>)

\* return addition(element_left, negation(element_right));
VectorSpace_difference(C, element_left, element_right) ==
    Invoke(C.members.addition.f, C,
           <<element_left, Invoke(C.members.negation.f, C, <<element_right>>)>>)

\* a mutation: the arguments passed on in the other order
MetricSpace_distSwapped(C, element_left, element_right) ==
    Invoke(C.members.distance.f, C, <<element_right, element_left>>)

\* return distance(element_left, element_right);
MetricSpace_dist(C, element_left, element_right) ==
    Invoke(C.members.distance.f, C, <<element_left, element_right>>)

\* a mutation: the difference taken the other way round
InducedDistanceSwapped(NS, element_left, element_right) ==
    Invoke(NS.members.norm.f, NS,
           <<CallStatic(NS.bases[1], "difference", <<element_right, element_left>>)>>)

\* a mutation: definiteness enforced, unequal elements are never at distance 0
InducedDistanceDefinite(NS, element_left, element_right) ==
    IF CallStatic(NS, "equality", <<element_left, element_right>>)
    THEN Invoke(NS.members.norm.f, NS,
                <<CallStatic(NS.bases[1], "difference", <<element_left, element_right>>)>>)
    ELSE 1

\* a mutation: the difference derived again from addition and negation
\* instead of asking the base structure for it
InducedDistanceRederived(NS, element_left, element_right) ==
    Invoke(NS.members.norm.f, NS,
           <<CallStatic(NS.bases[1], "addition",
                        <<element_left, CallStatic(NS.bases[1], "negation", <<element_right>>)>>)>>)

\* InducedDistance::operator(): return norm( VS::difference(element_left, element_right) );
InducedDistance_call(NS, element_left, element_right) ==
    Invoke(NS.members.norm.f, NS,
           <<CallStatic(NS.bases[1], "difference", <<element_left, element_right>>)>>)

\* return metric_space::dist(element_left, element_right);
NormedSpace_distance(C, element_left, element_right) ==
    CallStatic(metric_space(C), "dist", <<element_left, element_right>>)

\* calling the functor F, a member of class C
Invoke(F, C, args) ==
    CASE F.impl = "VectorSpace::difference" -> VectorSpace_difference(C, args[1], args[2])
      [] F.impl = "MetricSpace::dist"       -> MetricSpace_dist(C, args[1], args[2])
      [] F.impl = "InducedDistance"         -> InducedDistance_call(F.env[1], args[1], args[2])
      [] F.impl = "NormedSpace::distance"   -> NormedSpace_distance(C, args[1], args[2])
      [] OTHER                              -> Behaviour(F.impl, args)

\* T::n(args...)
CallStatic(T, n, args) == Invoke(LookupMember(T, n).f, Owner(T, n), args)

(***************************************************************************)
(* Call time: the structures a program holds.                              *)
(***************************************************************************)
Implemented(F, impl) == [F EXCEPT !.impl = impl]

AdditionImpls == {"add_mod", "add_weighted", "add_first", "add_second"}
ScalarActionImpls == {"scale_mod", "scale_ignore"}
NegationImpls == {"neg_mod", "neg_identity", "neg_successor"}
ZeroSupplierImpls == {"zero", "zero_top"}
EqualityImpls == {"eq_same", "eq_always"}
DistanceImpls == {"dist_absolute", "dist_discrete", "dist_directed"}
HandWrittenDifferenceImpls == {"hw_derived", "hw_reversed", "hw_constant"}
NormOrder == <<"norm_magnitude", "norm_value", "norm_zero">>

\* a VectorSpace over the numeric carrier
NumericVectorSpace(a, sa, n, z, e) ==
    VectorSpaceClass(ElementType, Ty("double"),
                     Implemented(Binary(ElementType), a),
                     Implemented(Scaling("double", ElementType), sa),
                     Implemented(Unary(ElementType), n),
                     Implemented(Nullary(ElementType), z),
                     Implemented(Binary(Ty("bool")), e))

\* a structure written by hand over the numeric carrier, with a difference of
\* its own
HandWrittenVectorSpace(h) ==
    LET VS == NumericVectorSpace("add_mod", "scale_mod", "neg_mod", "zero", "eq_same")
    IN  [VS EXCEPT !.members.difference =
                       Member("static_fn", Implemented(Binary(ElementType), h))]

\* using FunctionVectorSpace = kuukan::VectorSpace<RealFunctionElement, ...>
FunctionVectorSpace ==
    LET R == Ty("RealFunctionElement")
        cR == ConstRefTy("RealFunctionElement")
    IN  VectorSpaceClass(R, Ty("double"),
                         Functor(<<cR, cR>>, R, "FunctionAddition"),
                         Functor(<<ConstRefTy("double"), cR>>, R, "FunctionScalarAction"),
                         Functor(<<cR>>, R, "FunctionNegation"),
                         Functor(<<>>, R, "FunctionZeroSupplier"),
                         Functor(<<cR, cR>>, Ty("bool"), "FunctionEquality"))

NormFunctor(VS, impl) ==
    Functor(<<ConstRefTy(LookupType(VS, "element_type").base)>>, Ty("double"), impl)

\* VS with layers NormedSpaces stacked on it: NormedSpace<... NormedSpace<VS, N1> ..., Nk>
RECURSIVE Stack(_, _)
Stack(VS, norms) ==
    IF norms = <<>> THEN <<VS>>
    ELSE LET below == Stack(VS, SubSeq(norms, 1, Len(norms) - 1))
         IN  Append(below, NormedSpaceClass(below[Len(below)],
                                            NormFunctor(VS, norms[Len(norms)])))

\* the norms of the layers: the k-th of NormOrder first, then the ones after it
Norms(k) == [i \in 1..MaxLayers |-> NormOrder[((k + i - 2) % Len(NormOrder)) + 1]]

VectorProgram(kind, VS, norms) == [kind |-> kind, layers |-> Stack(VS, norms), MS |-> <<>>]
MetricProgram(d) ==
    [kind |-> "numeric", layers |-> <<>>,
     MS |-> <<MetricSpaceClass(ElementType, Implemented(Binary(Ty("double")), d))>>]

\* every layer of a program is one the Normed Space Composer accepts
Composes(p) ==
    \A i \in 2..Len(p.layers) :
        Outcome(NormedSpaceRequires(p.layers[i - 1], p.layers[i].members.norm.f),
                DerivableBase(p.layers[i - 1])
                    /\ ConstexprMember(p.layers[i].members.norm.f)) = Accepted

Programs ==
    {p \in
        {VectorProgram("numeric", NumericVectorSpace(a, sa, n, z, e), Norms(k)) :
            a \in AdditionImpls, sa \in ScalarActionImpls, n \in NegationImpls,
            z \in ZeroSupplierImpls, e \in EqualityImpls, k \in 1..Len(NormOrder)}
        \cup {VectorProgram("handwritten", HandWrittenVectorSpace(h), Norms(k)) :
                h \in HandWrittenDifferenceImpls, k \in 1..Len(NormOrder)}
        \cup {VectorProgram("function", FunctionVectorSpace,
                            [i \in 1..MaxLayers |-> "SupNormPlaceholder"])}
        \cup {MetricProgram(d) : d \in DistanceImpls} :
     Composes(p)}

\* the elements and scalars a program of this kind calls its structures with
Elements == IF space.kind = "function"
            THEN {sin_function, cos_function, FunctionZeroSupplier}
            ELSE Elem

\* a structure of the program: layer `at` (1 the vector space, above it the
\* NormedSpaces), the metric_space nested in layer `at`, or with at = 0 the
\* MetricSpace
Targets ==
    {[at |-> i, nested |-> FALSE] : i \in 1..Len(space.layers)}
        \cup {[at |-> i, nested |-> TRUE] : i \in 2..Len(space.layers)}
        \cup {[at |-> 0, nested |-> FALSE] : i \in 1..Len(space.MS)}

Resolve(t) ==
    IF t.at = 0 THEN space.MS[1]
    ELSE IF t.nested THEN metric_space(space.layers[t.at])
    ELSE space.layers[t.at]

\* T::n names a static member that can be called
Exposes(T, n) ==
    LET m == LookupMember(T, n)
    IN  /\ m.kind \in {"static_data", "static_fn"}
        /\ m.kind = "static_fn" \/ m.f.const_call

NoCall == [target |-> [at |-> 0, nested |-> FALSE], entry |-> "none", args |-> <<>>,
           result |-> 0]

Init ==
    /\ cur = <<>>
    /\ diag = Diag("none", <<>>, Accepted)
    /\ defined = "none"
    /\ verdicts = <<>>
    /\ space \in Programs
    /\ last = NoCall
    /\ threads = NotRunning
    /\ temps = NoTemporaries
    /\ store = FreshStore

\* one call T::entry(args...), made while no result is pending, complete
Call(t, entry, args) ==
    /\ last.entry = "none"
    /\ Exposes(Resolve(t), entry)
    /\ last' = [target |-> t, entry |-> entry, args |-> args,
                result |-> CallStatic(Resolve(t), entry, args)]
    /\ UNCHANGED <<cur, diag, defined, verdicts, space, threads, temps, store>>

addition == \E t \in Targets, a, b \in Elements : Call(t, "addition", <<a, b>>)
scalar_action ==
    \E t \in Targets, s \in Scalar, a \in Elements : Call(t, "scalar_action", <<s, a>>)
negation == \E t \in Targets, a \in Elements : Call(t, "negation", <<a>>)
zero_supplier == \E t \in Targets : Call(t, "zero_supplier", <<>>)
equality == \E t \in Targets, a, b \in Elements : Call(t, "equality", <<a, b>>)
difference == \E t \in Targets, a, b \in Elements : Call(t, "difference", <<a, b>>)
norm == \E t \in Targets, a \in Elements : Call(t, "norm", <<a>>)
distance == \E t \in Targets, a, b \in Elements : Call(t, "distance", <<a, b>>)
dist == \E t \in Targets, a, b \in Elements : Call(t, "dist", <<a, b>>)

\* the caller takes the result; the structures keep nothing of the call
Return ==
    /\ last.entry # "none"
    /\ last' = NoCall
    /\ UNCHANGED <<cur, diag, defined, verdicts, space, threads, temps, store>>

Next ==
    \/ addition
    \/ scalar_action
    \/ negation
    \/ zero_supplier
    \/ equality
    \/ difference
    \/ norm
    \/ distance
    \/ dist
    \/ Return

Spec == Init /\ [][Next]_vars

(***************************************************************************)
(* Call time, step by step.  Every thread of control runs one call at a    *)
(* time: its call expression enters the entry point, each function of the  *)
(* library enters what it calls, a caller's functor runs as one step, and  *)
(* values return frame by frame.  A functor may throw; the exception       *)
(* leaves one frame after the other.  The operation instances are static   *)
(* members, shared by all threads; the frames and the values they hold are *)
(* automatic, one set per thread.                                          *)
(***************************************************************************)
\* operator() throws on these arguments
Raises(impl, args) ==
    CASE impl = "neg_partial"  -> args[1] = 0
      [] impl = "add_partial"  -> args[1] = args[2]
      [] impl = "norm_partial" -> args[1] = MaxElem - 1
      [] OTHER                 -> FALSE

\* the exception it throws
Raised(impl) == impl \o ": std::domain_error"

\* a functor with a `mutable std::atomic<int> flipped` member changes it in
\* its const operator()
KeepsState(impl) == impl = "neg_alternating"

\* what operator() returns, the instance being in state st
Returned(impl, args, st) ==
    IF KeepsState(impl) /\ st.flipped THEN args[1] ELSE Behaviour(impl, args)

\* a mutation: the library counts the calls it forwards
StoreAfterCounting(impl, st) == [st EXCEPT !.flipped = ~@]

\* the state of the operation instances after operator() of one has run: the
\* members are constexpr objects, only a mutable member of the functor changes
StoreAfter(impl, st) == IF KeepsState(impl) THEN [st EXCEPT !.flipped = ~@] ELSE st

\* a mutation: the exception caught and another one thrown in its place
PropagateWrapped(fn, fault) == "kuukan: " \o fault

\* an exception passing through a function of the library: no handler, it
\* leaves as it came
Propagate(fn, fault) == fault

\* a mutation: the values in flight kept in static storage, one set for all
\* threads
StaticStorage(th) == CHOOSE t \in Threads : TRUE

\* whose temporaries thread th reads and writes: its own
Automatic(th) == th

\* a structure of the program named by its place in it
Place(C) == CHOOSE t \in Targets : Resolve(t) = C

\* the frame of a function of the library: the function, the structure it is
\* a member of, its arguments and how far it has come
Frame(fn, name, C, args) ==
    [fn |-> fn, name |-> name, C |-> Place(C), args |-> args, pc |-> 0]

\* what a frame does next
Calls(name, F, C, args) == [do |-> "call", name |-> name, F |-> F, C |-> C, args |-> args]
Gives(value) == [do |-> "return", value |-> value]

\* the call T::name(args...): lookup of name in T and its bases
MemberCall(T, name, args) == Calls(name, LookupMember(T, name).f, Owner(T, name), args)

\* a mutation: the left element is negated and added to the right one
VectorSpace_difference_stepNegatingLeft(C, args, pc, tmp) ==
    CASE pc = 0 -> Calls("negation", C.members.negation.f, C, <<args[1]>>)
      [] pc = 1 -> Calls("addition", C.members.addition.f, C, <<tmp[1], args[2]>>)
      [] OTHER  -> Gives(tmp[1])

\* return addition(element_left, negation(element_right));
VectorSpace_difference_step(C, args, pc, tmp) ==
    CASE pc = 0 -> Calls("negation", C.members.negation.f, C, <<args[2]>>)
      [] pc = 1 -> Calls("addition", C.members.addition.f, C, <<args[1], tmp[1]>>)
      [] OTHER  -> Gives(tmp[1])

\* return distance(element_left, element_right);
MetricSpace_dist_step(C, args, pc, tmp) ==
    IF pc = 0 THEN Calls("distance", C.members.distance.f, C, args)
    ELSE Gives(tmp[1])

\* return norm( VS::difference(element_left, element_right) );
InducedDistance_step(NS, args, pc, tmp) ==
    CASE pc = 0 -> MemberCall(NS.bases[1], "difference", args)
      [] pc = 1 -> Calls("norm", NS.members.norm.f, NS, <<tmp[1]>>)
      [] OTHER  -> Gives(tmp[1])

\* return metric_space::dist(element_left, element_right);
NormedSpace_distance_step(C, args, pc, tmp) ==
    IF pc = 0 THEN MemberCall(metric_space(C), "dist", args) ELSE Gives(tmp[1])

\* what the frame fr of a member function of C does next, tmp being what its
\* callee has returned; a frame that waits for a value that is not there has
\* no defined next step
Site(fr, C, tmp) ==
    IF fr.pc > 0 /\ tmp = <<>> THEN [do |-> "undefined"]
    ELSE CASE fr.fn = "VectorSpace::difference" ->
                VectorSpace_difference_step(C, fr.args, fr.pc, tmp)
           [] fr.fn = "MetricSpace::dist" -> MetricSpace_dist_step(C, fr.args, fr.pc, tmp)
           [] fr.fn = "InducedDistance" -> InducedDistance_step(C, fr.args, fr.pc, tmp)
           [] OTHER -> NormedSpace_distance_step(C, fr.args, fr.pc, tmp)

\* what a running thread does next: what the function it is in does next,
\* or, no function of the library being entered, the call T::entry(args...)
\* the thread has written
NextOf(thr, tmp) ==
    IF thr.stack = <<>>
    THEN MemberCall(Resolve(thr.T), thr.entry, thr.args)
    ELSE Site(thr.stack[Len(thr.stack)], Resolve(thr.stack[Len(thr.stack)].C),
              tmp[thr.stack[Len(thr.stack)].fn])

\* the kind of step a thread in this status takes, site being what it does
\* next when it is running
KindOf(status, site) ==
    IF status = "unwinding" THEN "unwind"
    ELSE IF status # "running" THEN "none"
    ELSE CASE site.do = "call" /\ site.F.impl \in CoreFunctions -> "enter"
           [] site.do = "call"                                  -> "operate"
           [] site.do = "return"                                -> "leave"
           [] OTHER                                             -> "none"

\* the kind of step a thread takes next
Kind(thr, tmp) == KindOf(thr.status, NextOf(thr, tmp))

\* the stack with the function on top of it moved on to its next statement
Advanced(stack) ==
    IF stack = <<>> THEN stack ELSE [stack EXCEPT ![Len(stack)].pc = @ + 1]

\* the value v handed to whoever is now on top of the stack: the function
\* keeps it as the value its callee returned, the call expression of the
\* thread has it as the result of the call
Handed(thr, tmp, stack, v) ==
    IF stack = <<>>
    THEN [thr |-> [thr EXCEPT !.stack = stack, !.status = "returned", !.result = <<v>>],
          tmp |-> tmp]
    ELSE [thr |-> [thr EXCEPT !.stack = stack],
          tmp |-> [tmp EXCEPT ![stack[Len(stack)].fn] = <<v>>]]

\* the step of this kind taken by a thread at this site: its record, its
\* temporaries and the operation instances after the step
Taken(thr, tmp, st, site, kind) ==
    LET n == Len(thr.stack)
        top == thr.stack[n]
        below == SubSeq(thr.stack, 1, n - 1)
    IN  CASE kind = "unwind" ->
               [thr |-> [thr EXCEPT !.stack = below,
                                    !.fault = Propagate(top.fn, thr.fault),
                                    !.status = IF n = 1 THEN "faulted" ELSE "unwinding"],
                tmp |-> [tmp EXCEPT ![top.fn] = <<>>],
                st  |-> st]
          [] kind = "enter" ->
               [thr |-> [thr EXCEPT !.stack =
                            Append(Advanced(thr.stack),
                                   Frame(site.F.impl, site.name,
                                         IF site.F.impl = "InducedDistance"
                                         THEN site.F.env[1] ELSE site.C,
                                         site.args))],
                tmp |-> tmp,
                st  |-> st]
          [] kind = "operate" ->
               IF Raises(site.F.impl, site.args)
               THEN [thr |-> [thr EXCEPT !.status = IF n = 0 THEN "faulted" ELSE "unwinding",
                                         !.fault = Raised(site.F.impl),
                                         !.trace = Append(thr.trace,
                                             [name |-> site.name, impl |-> site.F.impl,
                                              args |-> site.args, out |-> <<>>])],
                     tmp |-> tmp,
                     st  |-> st]
               ELSE LET v == Returned(site.F.impl, site.args, st)
                        called == [thr EXCEPT !.trace = Append(thr.trace,
                                      [name |-> site.name, impl |-> site.F.impl,
                                       args |-> site.args, out |-> <<v>>])]
                        after == Handed(called, tmp, Advanced(thr.stack), v)
                    IN  [thr |-> after.thr, tmp |-> after.tmp,
                         st |-> StoreAfter(site.F.impl, st)]
          [] kind = "leave" ->
               LET after == Handed(thr, [tmp EXCEPT ![top.fn] = <<>>], below, site.value)
               IN  [thr |-> after.thr, tmp |-> after.tmp, st |-> st]
          [] OTHER -> [thr |-> thr, tmp |-> tmp, st |-> st]

\* one step of a thread
Stepped(thr, tmp, st) == Taken(thr, tmp, st, NextOf(thr, tmp), Kind(thr, tmp))

\* the programs that are run step by step: NormedSpace<VS, Norm> over a
\* VectorSpace of plain functors, of a functor that keeps state, of functors
\* that throw, and a MetricSpace
RunPrograms ==
    {VectorProgram("numeric",
                   NumericVectorSpace("add_weighted", "scale_mod", "neg_successor",
                                      "zero", "eq_same"), <<"norm_value">>),
     VectorProgram("numeric",
                   NumericVectorSpace("add_mod", "scale_mod", "neg_alternating",
                                      "zero", "eq_same"), <<"norm_magnitude">>),
     VectorProgram("numeric",
                   NumericVectorSpace("add_partial", "scale_mod", "neg_partial",
                                      "zero", "eq_same"), <<"norm_partial">>),
     MetricProgram("dist_directed")}

\* the elements the threads pass: the least two and the greatest of the
\* carrier
RunElements == {0, 1, MaxElem - 1}

\* the structure the threads call: the MetricSpace, or the NormedSpace, which
\* has the entry points of its vector space as well
RunTarget == IF space.MS # <<>> THEN space.MS[1] ELSE space.layers[Len(space.layers)]

\* the argument lists an entry point is called with
ArgumentLists(entry) ==
    CASE entry \in {"addition", "equality", "difference", "distance", "dist"} ->
            {<<a, b>> : a \in RunElements, b \in RunElements}
      [] entry = "scalar_action" -> {<<k, a>> : k \in Scalar, a \in RunElements}
      [] entry \in {"negation", "norm"} -> {<<a>> : a \in RunElements}
      [] OTHER -> {<<>>}

EntryPoints == OperationNames \cup {"difference", "norm", "distance", "dist"}

\* the record of a thread that is about to evaluate T::entry(args...)
Calling(T, entry, args) ==
    [status |-> "running", T |-> Place(T), entry |-> entry, args |-> args, stack |-> <<>>,
     trace |-> <<>>, result |-> <<>>, fault |-> ""]

InitRun ==
    /\ cur = <<>>
    /\ diag = Diag("none", <<>>, Accepted)
    /\ defined = "none"
    /\ verdicts = <<>>
    /\ space \in RunPrograms
    /\ last = NoCall
    /\ threads = NotRunning
    /\ temps = NoTemporaries
    /\ store = FreshStore

\* thread th starts a call
Begin(th) ==
    /\ threads[th].status = "idle"
    /\ \E entry \in EntryPoints :
          /\ Exposes(RunTarget, entry)
          /\ \E args \in ArgumentLists(entry) :
                threads' = [threads EXCEPT ![th] = Calling(RunTarget, entry, args)]
    /\ UNCHANGED <<cur, diag, defined, verdicts, space, last, temps, store>>

\* thread th takes its next step
Step(th) ==
    LET after == Stepped(threads[th], temps[Automatic(th)], store)
    IN  /\ threads' = [threads EXCEPT ![th] = after.thr]
        /\ temps' = [temps EXCEPT ![Automatic(th)] = after.tmp]
        /\ store' = after.st
        /\ UNCHANGED <<cur, diag, defined, verdicts, space, last>>

\* a function of the library is entered
Enter(th) ==
    /\ Kind(threads[th], temps[Automatic(th)]) = "enter"
    /\ Step(th)

\* a functor of the caller runs: it returns a value or throws
Operate(th) ==
    /\ Kind(threads[th], temps[Automatic(th)]) = "operate"
    /\ Step(th)

\* a function returns to the one that called it
Leave(th) ==
    /\ Kind(threads[th], temps[Automatic(th)]) = "leave"
    /\ Step(th)

\* an exception leaves a function
Unwind(th) ==
    /\ Kind(threads[th], temps[Automatic(th)]) = "unwind"
    /\ Step(th)

\* the caller has the value, or the exception, and goes on
Finish(th) ==
    /\ threads[th].status \in {"returned", "faulted"}
    /\ threads' = [threads EXCEPT ![th] = [status |-> "idle"]]
    /\ UNCHANGED <<cur, diag, defined, verdicts, space, last, temps, store>>

NextRun ==
    \/ \E th \in Threads : Begin(th)
    \/ \E th \in Threads : Enter(th)
    \/ \E th \in Threads : Operate(th)
    \/ \E th \in Threads : Leave(th)
    \/ \E th \in Threads : Unwind(th)
    \/ \E th \in Threads : Finish(th)

SpecRun == InitRun /\ [][NextRun]_vars

(***************************************************************************)
(* Properties of definition time (checked under SpecCompose).              *)
(***************************************************************************)
\* read off the operator table: `op` on two S yields exactly S
YieldsExactly(S, op) == OperatorTable[S.base][op] = S
\* read off the operator table: `op` on two S yields something a bool can be
\* made from
YieldsBoolean(S, op) == OperatorTable[S.base][op].base \in Arithmetic

\* a functor can be called with one `const T&` per entry of bases, T being
\* that entry, and hands back something of base type ret
Takes(F, bases) ==
    /\ F.callable
    /\ Len(F.params) = Len(bases)
    /\ \A i \in 1..Len(bases) :
          /\ F.params[i].ref = "" \/ F.params[i].cv = "const"
          /\ \/ F.params[i].base = bases[i]
             \/ {F.params[i].base, bases[i]} \subseteq Arithmetic
Returns(F, rets) == F.ret.base \in rets

\* no structure has been produced
NothingProduced == cur = <<>>

ScalarIsFieldLike(S) ==
    /\ YieldsExactly(S, "plus") /\ YieldsExactly(S, "minus")
    /\ YieldsExactly(S, "times") /\ YieldsExactly(S, "div")
    /\ YieldsBoolean(S, "eq")

\* C5: a VectorSpace is produced only if its Scalar supports + - * / each
\* yielding exactly Scalar and == yielding something convertible to bool; a
\* Scalar that lacks one of these is rejected and nothing is produced.
C5_FieldLikeScalarRequired ==
    diag.template = "VectorSpace" =>
        /\ diag.outcome = Accepted => ScalarIsFieldLike(diag.args.ScalarType)
        /\ ~ScalarIsFieldLike(diag.args.ScalarType) =>
                diag.outcome # Accepted /\ NothingProduced

GoodOperations(a) ==
    /\ a.Addition = Binary(ElementType)
    /\ a.ScalarAction = Scaling(a.ScalarType.base, ElementType)
    /\ a.Negation = Unary(ElementType)
    /\ a.ZeroSupplier = Nullary(ElementType)
    /\ a.Equality = Binary(Ty("bool"))

\* a Scalar without / is rejected although all five operations are in order
C5_Witness ==
    /\ diag.template = "VectorSpace"
    /\ diag.args.ScalarType = Ty("NoDiv")
    /\ GoodOperations(diag.args)
    /\ diag.outcome = ConstraintFailure
    /\ NothingProduced

OperationInOrder(a, n) ==
    LET S == a.ScalarType.base
        E == a.ElementType.base
        \* what converts to an element
        toE == IF E \in Arithmetic THEN Arithmetic ELSE {E}
    IN  CASE n = "addition" ->
               /\ a.Addition.default_init
               /\ Takes(a.Addition, <<E, E>>) /\ Returns(a.Addition, toE)
          [] n = "scalar_action" ->
               /\ a.ScalarAction.default_init
               /\ Takes(a.ScalarAction, <<S, E>>) /\ Returns(a.ScalarAction, toE)
          [] n = "negation" ->
               /\ a.Negation.default_init
               /\ Takes(a.Negation, <<E>>) /\ Returns(a.Negation, toE)
          [] n = "zero_supplier" ->
               /\ a.ZeroSupplier.default_init
               /\ Takes(a.ZeroSupplier, <<>>) /\ Returns(a.ZeroSupplier, toE)
          [] OTHER ->
               /\ a.Equality.default_init
               /\ Takes(a.Equality, <<E, E>>) /\ Returns(a.Equality, Arithmetic)

\* C6: a VectorSpace is produced only if each of the five operations is
\* default-constructible, callable with its own argument list and yields
\* something convertible to its return type; one operation out of order is
\* enough for rejection, whatever the other four are.
C6_EveryOperationChecked ==
    diag.template = "VectorSpace" =>
        \A n \in OperationNames :
            /\ diag.outcome = Accepted => OperationInOrder(diag.args, n)
            /\ ~OperationInOrder(diag.args, n) =>
                    diag.outcome # Accepted /\ NothingProduced

\* an Addition of the wrong arity is rejected although the Scalar and the
\* other four operations are in order
C6_Witness ==
    /\ diag.template = "VectorSpace"
    /\ diag.args.ScalarType = Ty("double")
    /\ diag.args.Addition = Unary(ElementType)
    /\ \A n \in OperationNames \ {"addition"} : OperationInOrder(diag.args, n)
    /\ diag.outcome = ConstraintFailure
    /\ NothingProduced

MeasureIsOrdered(M) ==
    /\ YieldsExactly(M, "plus")
    /\ YieldsBoolean(M, "eq") /\ YieldsBoolean(M, "lt") /\ YieldsBoolean(M, "le")

\* C7: a MetricSpace is produced if and only if its Distance is
\* default-constructible, callable on two elements and yields an ordered
\* measure.
C7_MetricSpaceIff ==
    diag.template = "MetricSpace" =>
        LET D == diag.args.DistanceFunction
        IN  diag.outcome = Accepted <=>
                /\ D.default_init
                /\ Takes(D, <<"E", "E">>)
                /\ MeasureIsOrdered(D.ret)

\* the members the claim asks a vector-space-like type to expose
ExposesShape(T) ==
    /\ LookupType(T, "element_type") # NoType
    /\ LookupType(T, "scalar_type") # NoType
    /\ \A n \in OperationNames :
          LookupMember(T, n).kind \in {"static_data", "static_fn"}
    /\ LET m == LookupMember(T, "difference")
           E == LookupType(T, "element_type").base
       IN  /\ m.kind \in {"static_data", "static_fn"}
           /\ Takes(m.f, <<E, E>>)
           /\ m.f.ret = LookupType(T, "element_type")

\* C8: a NormedSpace is produced if and only if its input structure passes
\* the vector-space structural check and its Norm is default-constructible,
\* callable on one element and yields an ordered measure.
C8_NormedSpaceIff ==
    diag.template = "NormedSpace" =>
        LET Norm == diag.args.NormFunction
        IN  diag.outcome = Accepted <=>
                /\ VectorSpaceLike(diag.args.VS)
                /\ Norm.default_init
                /\ Takes(Norm, <<LookupType(diag.args.VS, "element_type").base>>)
                /\ MeasureIsOrdered(Norm.ret)

\* C10: a type is recognised as vector-space-like if and only if it has the
\* member types element_type and scalar_type, static members addition,
\* scalar_action, negation, zero_supplier and equality, and a difference
\* callable on two elements that yields exactly element_type.
C10_RecognitionIff ==
    diag.template = "VectorSpaceLike" =>
        (diag.verdict <=> ExposesShape(diag.args.T))

\* the shape of a VectorSpace over E and double: its member types and its
\* members, whoever wrote them down
ReferenceShape ==
    VectorSpaceClass(ElementType, Ty("double"), Binary(ElementType),
                     Scaling("double", ElementType), Unary(ElementType),
                     Nullary(ElementType), Binary(Ty("bool")))
\* a member as the shape sees it: its kind and signature, not what it does
Signature(m) == [m EXCEPT !.f.impl = "opaque"]
MatchesReferenceShape(T) ==
    /\ T.types = ReferenceShape.types
    /\ DOMAIN T.members = DOMAIN ReferenceShape.members
    /\ \A n \in DOMAIN T.members :
          Signature(T.members[n]) = Signature(ReferenceShape.members[n])

NormFits(VS, N) ==
    /\ N.default_init /\ N.literal
    /\ Takes(N, <<LookupType(VS, "element_type").base>>)
    /\ MeasureIsOrdered(N.ret)

\* C12: every structure that came out of the Vector Space Composer, with or
\* without NormedSpaces on top of it, is recognised as vector-space-like,
\* and the Normed Space Composer accepts it with any norm that fits.
C12_ComposedIsVectorSpaceLike ==
    /\ (diag.template = "VectorSpaceLike" /\ defined = "VectorSpace") => diag.verdict
    /\ (/\ diag.template = "NormedSpace" /\ defined = "VectorSpace"
        /\ NormFits(diag.args.VS, diag.args.NormFunction))
            => diag.outcome = Accepted

(***************************************************************************)
(* Properties of call time (checked under Spec).                           *)
(***************************************************************************)
\* what the caller's functor held in member n of class T computes
Supplied(T, n, args) == Behaviour(T.members[n].f.impl, args)

\* the last call was made on a NormedSpace layer itself
OnNormedSpace == last.target.at >= 2 /\ ~last.target.nested
\* the last call was made on a MetricSpace: the program's own, or the
\* metric_space nested in a NormedSpace layer
OnMetricSpace == last.entry # "none" /\ (last.target.at = 0 \/ last.target.nested)

\* C1: on a structure produced by VectorSpace, difference(a, b) returns the
\* value of the caller's addition applied to a and to the caller's negation
\* of b, in that order.
C1_DifferenceIsAdditionOfNegation ==
    (last.entry = "difference" /\ last.target.at = 1 /\ space.kind # "handwritten") =>
        LET VS == space.layers[1]
        IN  last.result =
                Supplied(VS, "addition",
                         <<last.args[1], Supplied(VS, "negation", <<last.args[2]>>)>>)

\* a difference whose value tells the operand order: addition is not
\* commutative and negation is not the identity
C1_Witness ==
    /\ last.entry = "difference" /\ last.target.at = 1
    /\ space.kind = "numeric"
    /\ space.layers[1].members.addition.f.impl = "add_weighted"
    /\ space.layers[1].members.negation.f.impl = "neg_successor"
    /\ last.result # Supplied(space.layers[1], "addition",
                              <<Supplied(space.layers[1], "negation", <<last.args[2]>>),
                                last.args[1]>>)
    /\ last.result # Supplied(space.layers[1], "addition", <<last.args[1], last.args[2]>>)

\* C2: on a NormedSpace over VS, distance(a, b) returns the caller's norm of
\* VS::difference(a, b), and so do distance and dist of its nested
\* metric_space.
C2_DistanceIsNormOfDifference ==
    (/\ last.entry \in {"distance", "dist"}
     /\ last.target.at >= 2) =>
        LET NS == space.layers[last.target.at]
            VS == space.layers[last.target.at - 1]
        IN  last.result = Supplied(NS, "norm", <<CallStatic(VS, "difference", last.args)>>)

\* a distance on a NormedSpace that is not 0 and that the reversed difference
\* would not give
C2_Witness ==
    /\ last.entry = "distance" /\ OnNormedSpace
    /\ space.kind = "numeric"
    /\ last.result # 0
    /\ last.result #
         Supplied(space.layers[last.target.at], "norm",
                  <<CallStatic(space.layers[1], "difference",
                               <<last.args[2], last.args[1]>>)>>)

\* the Distance operation a MetricSpace was composed with, applied to (a, b)
SuppliedDistance(t, a, b) ==
    IF t.at = 0 THEN Supplied(space.MS[1], "distance", <<a, b>>)
    ELSE InducedDistance_call(space.layers[t.at], a, b)

\* C3: on a structure produced by MetricSpace, dist(a, b) and distance(a, b)
\* both return the supplied Distance operation applied to (a, b) in that
\* order, hence the same value.
C3_DistIsDistance ==
    (OnMetricSpace /\ last.entry \in {"dist", "distance"}) =>
        last.result = SuppliedDistance(last.target, last.args[1], last.args[2])

\* dist on the program's MetricSpace with a distance that is not symmetric,
\* on a pair that tells the order
C3_Witness ==
    /\ last.entry = "dist" /\ last.target.at = 0
    /\ space.MS[1].members.distance.f.impl = "dist_directed"
    /\ last.result # Supplied(space.MS[1], "distance", <<last.args[2], last.args[1]>>)

VectorSpaceEntries == OperationNames \cup {"difference"}

\* C4: on a NormedSpace over VS, addition, scalar_action, negation,
\* zero_supplier, equality and difference return what the same call on VS
\* itself returns.
C4_NormedSpaceReexposes ==
    (OnNormedSpace /\ last.entry \in VectorSpaceEntries) =>
        last.result = CallStatic(space.layers[last.target.at - 1], last.entry, last.args)

\* difference(sin, cos) called on the topmost NormedSpace of the function
\* space
C4_Witness ==
    /\ OnNormedSpace /\ last.target.at = Len(space.layers)
    /\ space.kind = "function"
    /\ last.entry = "difference"
    /\ last.args = <<sin_function, cos_function>>
    /\ last.result.symbolic_identity = "(sin + (-cos))"

\* the norms that return 0 for every element
ZeroNorms == {"norm_zero", "SupNormPlaceholder"}

\* C9: with a norm that is 0 everywhere, distance(a, b) on the NormedSpace is
\* 0 for every pair, equal or not.
C9_ZeroNormZeroDistance ==
    (/\ last.entry = "distance" /\ OnNormedSpace
     /\ space.layers[last.target.at].members.norm.f.impl \in ZeroNorms) =>
        last.result = 0

\* distance(sin, cos) = 0 in the function space, where equality(sin, cos) is
\* false
C9_Witness ==
    /\ last.entry = "distance" /\ OnNormedSpace
    /\ space.kind = "function"
    /\ last.args = <<sin_function, cos_function>>
    /\ ~CallStatic(space.layers[last.target.at], "equality", last.args)
    /\ last.result = 0

\* addition(a, negation(b)) with the operations of the structure at the
\* bottom of the program
AdditionOfNegation(a, b) ==
    Supplied(space.layers[1], "addition",
             <<a, Supplied(space.layers[1], "negation", <<b>>)>>)

\* C13 as stated: on every structure the Normed Space Composer accepts,
\* written by hand or not, difference(a, b) is addition(a, negation(b)) and
\* the induced distance is the norm of that.
C13_DifferenceNeverSupplied ==
    /\ (last.entry = "difference" /\ last.target.at >= 1) =>
            last.result = AdditionOfNegation(last.args[1], last.args[2])
    /\ (last.entry = "distance" /\ OnNormedSpace) =>
            last.result = Supplied(space.layers[last.target.at], "norm",
                                   <<AdditionOfNegation(last.args[1], last.args[2])>>)

\* C13 amended: on structures the Vector Space Composer produced, and on
\* NormedSpaces over them, difference(a, b) is addition(a, negation(b)) and
\* the induced distance is the norm of that; on a structure written by hand
\* the induced distance is the norm of the difference that structure
\* supplies.
C13_DerivedWhereComposed ==
    /\ (last.entry = "difference" /\ last.target.at >= 1 /\ space.kind # "handwritten") =>
            last.result = AdditionOfNegation(last.args[1], last.args[2])
    /\ (last.entry = "distance" /\ OnNormedSpace) =>
            last.result =
                Supplied(space.layers[last.target.at], "norm",
                         <<IF space.kind = "handwritten"
                           THEN Supplied(space.layers[1], "difference", last.args)
                           ELSE AdditionOfNegation(last.args[1], last.args[2])>>)

\* a distance on a NormedSpace over a structure written by hand that is not
\* the norm of addition(a, negation(b))
C13_Witness ==
    /\ space.kind = "handwritten"
    /\ last.entry = "distance" /\ OnNormedSpace
    /\ last.result # Supplied(space.layers[last.target.at], "norm",
                              <<AdditionOfNegation(last.args[1], last.args[2])>>)

(***************************************************************************)
(* Properties of call time, step by step (checked under SpecRun).          *)
(***************************************************************************)
\* the functors a program was composed with
OperationsOf(p) ==
    LET structures == {p.layers[i] : i \in 1..Len(p.layers)}
                          \cup {p.MS[i] : i \in 1..Len(p.MS)}
    IN  UNION {{C.members[n].f.impl :
                  n \in DOMAIN C.members \cap (OperationNames \cup {"norm", "distance"})} :
               C \in structures}

\* none of them keeps state
PureOperations == \A impl \in OperationsOf(space) : ~KeepsState(impl)

Completed(th) == threads[th].status = "returned"
Ended(th) == threads[th].status \in {"returned", "faulted"}

\* nothing is kept of the calls made: the operation instances are as they
\* were composed, a thread between two calls holds no value of the last one,
\* and a call that has returned has returned what its arguments alone decide
NothingKept ==
    /\ store = FreshStore
    /\ \A th \in Threads :
          /\ threads[th].status = "idle" =>
                \A fn \in CoreFunctions : temps[th][fn] = <<>>
          /\ Completed(th) =>
                threads[th].result =
                    <<CallStatic(Resolve(threads[th].T), threads[th].entry, threads[th].args)>>

\* C14 as stated: whatever the operations are, after any calls the operation
\* instances are unchanged, no argument is retained and a result depends on
\* the arguments of its call only.
C14_Stateless == NothingKept

\* C14 amended: the same, for structures composed of operations that keep no
\* state of their own.
C14_StatelessOverPureOperations == PureOperations => NothingKept

\* a distance has returned the value its arguments decide while the other
\* thread is in the middle of a call, operations having been called before
C14_Witness ==
    /\ PureOperations
    /\ \E th, other \in Threads :
          /\ Completed(th) /\ threads[th].entry = "distance"
          /\ Len(threads[th].trace) = 3
          /\ threads[other].status = "running" /\ threads[other].trace # <<>>

\* the call of thread th made alone: no other thread, from its first step to
\* its end
RECURSIVE RunAlone(_, _, _)
RunAlone(thr, tmp, st) ==
    IF thr.status \in {"returned", "faulted"} THEN thr
    ELSE LET after == Stepped(thr, tmp, st)
         IN  RunAlone(after.thr, after.tmp, after.st)

Alone(th) ==
    RunAlone(Calling(Resolve(threads[th].T), threads[th].entry, threads[th].args),
             NoTemporaries[th], FreshStore)

\* C15: with operations that keep no state, a call that has ended among the
\* steps of other threads has ended as it ends when made alone: same value or
\* same exception, same operations called with the same arguments.
C15_InterleavedAsAlone ==
    PureOperations =>
        \A th \in Threads :
            Ended(th) =>
                /\ threads[th].status = Alone(th).status
                /\ threads[th].result = Alone(th).result
                /\ threads[th].fault = Alone(th).fault
                /\ threads[th].trace = Alone(th).trace

\* two distance calls on different arguments have both been through their
\* negation, and one has returned while the other is still running
C15_Witness ==
    /\ PureOperations
    /\ \E th, other \in Threads :
          /\ th # other
          /\ Completed(th) /\ threads[th].entry = "distance"
          /\ threads[other].status = "running" /\ threads[other].entry = "distance"
          /\ threads[other].args # threads[th].args
          /\ Len(threads[other].trace) = 1

\* the operation called last in the call of thread th
LastCalled(th) == threads[th].trace[Len(threads[th].trace)]

\* C16: a call is ending with an exception only if the operation called last
\* threw; it is ending with the exception that operation threw, no operation
\* was called after it, and none called before it threw.
C16_FaultPassesThrough ==
    \A th \in Threads :
        /\ threads[th].status \in {"unwinding", "faulted"} =>
              /\ threads[th].trace # <<>>
              /\ Raises(LastCalled(th).impl, LastCalled(th).args)
              /\ threads[th].fault = Raised(LastCalled(th).impl)
              /\ threads[th].result = <<>>
        /\ threads[th].status \in {"running", "returned"} =>
              \A i \in 1..Len(threads[th].trace) :
                  ~Raises(threads[th].trace[i].impl, threads[th].trace[i].args)
        /\ threads[th].status \in {"running", "returned", "unwinding", "faulted"} =>
              \A i \in 1..(Len(threads[th].trace) - 1) :
                  ~Raises(threads[th].trace[i].impl, threads[th].trace[i].args)

\* a distance call has ended with the exception of addition: negation was
\* called, addition threw, norm was not called
C16_Witness ==
    \E th \in Threads :
        /\ threads[th].status = "faulted"
        /\ threads[th].entry = "distance"
        /\ Len(threads[th].trace) = 2
        /\ LastCalled(th).name = "addition"
        /\ threads[th].fault = Raised("add_partial")

\* the operations a call has called, by name
Called(th) == [i \in 1..Len(threads[th].trace) |-> threads[th].trace[i].name]

\* C17: a distance call on a NormedSpace over a VectorSpace calls negation on
\* b, then addition on a and what negation returned, then norm on what
\* addition returned, and returns what norm returned; at any moment of the
\* call the operations called so far are the first of these three.
C17_DistanceCallsInOrder ==
    \A th \in Threads :
        (threads[th].status # "idle" /\ threads[th].entry = "distance"
            /\ space.layers # <<>>) =>
            LET trace == threads[th].trace
                a == threads[th].args[1]
                b == threads[th].args[2]
            IN  /\ Called(th) = SubSeq(<<"negation", "addition", "norm">>, 1, Len(trace))
                /\ Len(trace) >= 1 => trace[1].args = <<b>>
                /\ Len(trace) >= 2 => trace[2].args = <<a, trace[1].out[1]>>
                /\ Len(trace) >= 3 => trace[3].args = <<trace[2].out[1]>>
                /\ Completed(th) => Len(trace) = 3 /\ threads[th].result = trace[3].out

\* distance(a, b) with a # b has returned after three operations, addition
\* not being commutative
C17_Witness ==
    \E th \in Threads :
        /\ Completed(th) /\ threads[th].entry = "distance"
        /\ space.layers # <<>>
        /\ space.layers[1].members.addition.f.impl = "add_weighted"
        /\ threads[th].args[1] # threads[th].args[2]
        /\ Called(th) = <<"negation", "addition", "norm">>

====
